---- MODULE Spec2Model ----
(***************************************************************************)
(* Order-picking report generator (energy-spectrum/Test1).                 *)
(*                                                                         *)
(* The repository holds four programs `package main` that print the same   *)
(* report: src/cmd/main.go and three more (src/unnamed/part_000, part_001, *)
(* part_002).  Each is modelled as its own specification over the shared   *)
(* variables below:                                                        *)
(*   Spec      src/cmd/main.go                                             *)
(*   SpecP000  src/unnamed/part_000                                        *)
(*   SpecP001  src/unnamed/part_001                                        *)
(*   SpecP002  src/unnamed/part_002                                        *)
(* Strings on which the code computes (the argument, rack names, the       *)
(* joined secondary-rack list) are sequences of byte values; product names *)
(* are only copied and are kept as TLA+ strings.                           *)
(***************************************************************************)
EXTENDS Integers, Sequences, FiniteSets, Bags, TLC

VARIABLES
    pc,             \* position of solve()
    arg,            \* os.Args[1]
    ordersTable,    \* rows of the order table, in the order the database returns them
    racksTable,     \* rows of the product-rack table, in the order the database returns them
    rackTable,      \* part_000: rows of table rack (rack_id, rack_name)
    orderIDs,       \* solve: orderIDs
    orders,         \* solve: orders (map order ID -> list of line items)
    mainRacks,      \* global mainRacks
    secondaryRacks, \* global secondaryRacks
    racks,          \* solve: racks (map rack name -> list of line items)
    out,            \* lines written to standard output
    productsNames,  \* part_000: global productsNames
    racksNames,     \* part_000: global racksNames
    productsName,   \* part_001: global productsName, the product-name cache
    loop,           \* part_001: position of the loops of getOrders;
                    \* part_002: what the print loops have still to print
    calls,          \* history: number of store.GetProduct calls per product ID
    lookupFailed    \* history: a repository lookup of this run returned an error

vars == <<pc, arg, ordersTable, racksTable, rackTable, orderIDs, orders, mainRacks,
          secondaryRacks, racks, out, productsNames, racksNames, productsName, loop,
          calls, lookupFailed>>

inputs == <<arg, ordersTable, racksTable, rackTable>>

\* state of the other programs, untouched by src/cmd/main.go
vars000 == <<productsNames, racksNames>>
vars001 == <<productsName, loop, calls>>

----------------------------------------------------------------------------
(* Bounds and input universes *)

MaxOrderRows == 2
MaxRackRows == 2

Comma == 44

EmptyStr == <<>>
StrAB == <<65, 66>>
StrB == <<66>>

OrderIDSet == {1, 2}
ProductIDSet == {10, 20}
RackNameSet == {StrAB, StrB}

\* The arguments tried: "1,2"  "2,1"  "1,1"
ArgSet == {<<49, 44, 50>>, <<50, 44, 49>>, <<49, 44, 49>>}

\* The snapshot's product names and the quantity of each (order, product) row.
ProductNameOf(p) == IF p = 10 THEN "bolt" ELSE "nut"
QuantityOf(o, p) == IF o = 1 THEN (IF p = 10 THEN 3 ELSE 1) ELSE (IF p = 10 THEN 1 ELSE 2)

SeqsUpTo(S, n) == UNION {[1..k -> S] : k \in 0..n}

Range(s) == {s[i] : i \in DOMAIN s}

\* every order in which the keys of a map can be visited by `range`
VisitOrders(S) == {f \in [1..Cardinality(S) -> S] : Range(f) = S}

----------------------------------------------------------------------------
(* Go maps: a function whose domain is the set of keys present *)

EmptyMap == <<>>

MapGet(m, k, zero) == IF k \in DOMAIN m THEN m[k] ELSE zero

MapPut(m, k, v) == [x \in (DOMAIN m) \cup {k} |-> IF x = k THEN v ELSE m[x]]

----------------------------------------------------------------------------
(* strings.Split, strconv.ParseInt, sort.Strings *)

RECURSIVE SplitFrom(_, _, _)
SplitFrom(s, sep, cur) ==
    IF s = <<>> THEN <<cur>>
    ELSE IF Head(s) = sep THEN <<cur>> \o SplitFrom(Tail(s), sep, <<>>)
    ELSE SplitFrom(Tail(s), sep, Append(cur, Head(s)))

Split(s, sep) == SplitFrom(s, sep, <<>>)

IsDigit(c) == c \in 48..57

RECURSIVE DigitsValue(_, _)
DigitsValue(s, acc) ==
    IF s = <<>> THEN acc ELSE DigitsValue(Tail(s), acc * 10 + (Head(s) - 48))

\* strconv.ParseInt(s, 10, 64) with the error dropped: 0 for a token that is no
\* number.  Tokens here are far shorter than 19 digits, so no range error arises.
ParseInt(s) ==
    LET signed == s # <<>> /\ Head(s) \in {43, 45}
        body == IF signed THEN Tail(s) ELSE s
    IN  IF body = <<>> \/ \E i \in DOMAIN body : ~IsDigit(body[i]) THEN 0
        ELSE IF signed /\ Head(s) = 45 THEN 0 - DigitsValue(body, 0)
        ELSE DigitsValue(body, 0)

RECURSIVE StrLess(_, _)
StrLess(a, b) ==
    IF b = <<>> THEN FALSE
    ELSE IF a = <<>> THEN TRUE
    ELSE IF Head(a) # Head(b) THEN Head(a) < Head(b)
    ELSE StrLess(Tail(a), Tail(b))

RECURSIVE InsertSorted(_, _)
InsertSorted(sorted, x) ==
    IF sorted = <<>> THEN <<x>>
    ELSE IF StrLess(x, Head(sorted)) THEN <<x>> \o sorted
    ELSE <<Head(sorted)>> \o InsertSorted(Tail(sorted), x)

RECURSIVE SortStrings(_)
SortStrings(s) ==
    IF s = <<>> THEN <<>> ELSE InsertSorted(SortStrings(Tail(s)), Head(s))

----------------------------------------------------------------------------
(* src/cmd/main.go *)

parseOrderIDs(orderIDsStr) ==
    LET toks == Split(orderIDsStr, Comma)
    IN  [i \in DOMAIN toks |-> ParseInt(toks[i])]

\* mutant: the WHERE clause of the orders query dropped
getOrdersQueryAll(ids) == ordersTable

\* SELECT o.id, o.product_id, o.quantity, p.name ... WHERE o.id = ANY($1)
getOrdersQuery(ids) == SelectSeq(ordersTable, LAMBDA r : r.id \in Range(ids))

PartOrderOf(r) ==
    [OrderID |-> r.id, Product |-> [ID |-> r.product_id, Name |-> r.name],
     Quantity |-> r.quantity]

\* the rows.Next() loop of getOrders
RECURSIVE ScanOrders(_, _, _)
ScanOrders(rows, os, mr) ==
    IF rows = <<>> THEN [orders |-> os, mainRacks |-> mr]
    ELSE LET r == Head(rows)
             po == PartOrderOf(r)
         IN  ScanOrders(Tail(rows),
                        MapPut(os, po.OrderID, Append(MapGet(os, po.OrderID, <<>>), po)),
                        MapPut(mr, po.Product.ID, EmptyStr))

\* SELECT product_id, name, is_main FROM racks WHERE product_id = ANY($1)
getRacksQuery(productIDs) == SelectSeq(racksTable, LAMBDA r : r.product_id \in productIDs)

\* mutant: initRacks without the isMain test, every row taken as a main rack
RECURSIVE ScanRacksIgnoringIsMain(_, _, _)
ScanRacksIgnoringIsMain(rows, mr, sr) ==
    IF rows = <<>> THEN [mainRacks |-> mr, secondaryRacks |-> sr]
    ELSE ScanRacksIgnoringIsMain(Tail(rows),
                                 MapPut(mr, Head(rows).product_id, Head(rows).name), sr)

\* the rows.Next() loop of initRacks
RECURSIVE ScanRacks(_, _, _)
ScanRacks(rows, mr, sr) ==
    IF rows = <<>> THEN [mainRacks |-> mr, secondaryRacks |-> sr]
    ELSE LET r == Head(rows)
         IN  IF r.is_main
             THEN ScanRacks(Tail(rows), MapPut(mr, r.product_id, r.name), sr)
             ELSE ScanRacks(Tail(rows), mr,
                            MapPut(sr, r.product_id,
                                   Append(MapGet(sr, r.product_id, <<>>), r.name)))

\* mutant: the bucket is overwritten, not appended to
AppendToRackOverwrite(rs, mr, partOrder) ==
    MapPut(rs, MapGet(mr, partOrder.Product.ID, EmptyStr), <<partOrder>>)

\* the body of the inner loop of groupOrdersByRack
AppendToRack(rs, mr, partOrder) ==
    LET rackName == MapGet(mr, partOrder.Product.ID, EmptyStr)
    IN  MapPut(rs, rackName, Append(MapGet(rs, rackName, <<>>), partOrder))

\* mutant: an order's list is walked from its end
RECURSIVE GroupListBackwards(_, _, _)
GroupListBackwards(list, rs, mr) ==
    IF list = <<>> THEN rs
    ELSE GroupListBackwards(SubSeq(list, 1, Len(list) - 1),
                            AppendToRack(rs, mr, list[Len(list)]), mr)

RECURSIVE GroupList(_, _, _)
GroupList(list, rs, mr) ==
    IF list = <<>> THEN rs
    ELSE GroupList(Tail(list), AppendToRack(rs, mr, Head(list)), mr)

\* groupOrdersByRack, the orders map being visited in the order `visit`
RECURSIVE groupOrdersByRack(_, _, _, _)
groupOrdersByRack(os, visit, rs, mr) ==
    IF visit = <<>> THEN rs
    ELSE groupOrdersByRack(os, Tail(visit), GroupList(os[Head(visit)], rs, mr), mr)

\* getSortedRacksNames, the racks map being visited in the order `iter`
getSortedRacksNames(iter) == SortStrings(iter)

Line(kind, str, name, id, qty) ==
    [kind |-> kind, str |-> str, name |-> name, id |-> id, qty |-> qty]

HeaderLine == Line("header", <<>>, "", 0, 0)
RackLine(rackName) == Line("rack", rackName, "", 0, 0)
ProductLine(name, id) == Line("product", <<>>, name, id, 0)
OrderLine(orderID, qty) == Line("order", <<>>, "", orderID, qty)
SecondaryLine(str) == Line("secondary", str, "", 0, 0)
BlankLine == Line("blank", <<>>, "", 0, 0)

\* listAdditionalRacksStr: every name followed by a comma, the last byte cut off
RECURSIVE JoinWithCommas(_)
JoinWithCommas(names) ==
    IF names = <<>> THEN <<>>
    ELSE Head(names) \o <<Comma>> \o JoinWithCommas(Tail(names))

\* mutant: the trailing comma is not cut off
ListAdditionalRacksUncut(names) == JoinWithCommas(names)

ListAdditionalRacks(names) ==
    LET str == JoinWithCommas(names) IN SubSeq(str, 1, Len(str) - 1)

\* the lines printed for one entry
PrintPartOrder(partOrder, sr) ==
    LET product == partOrder.Product
        secondary == MapGet(sr, product.ID, <<>>)
    IN  <<ProductLine(product.Name, product.ID),
          OrderLine(partOrder.OrderID, partOrder.Quantity)>>
        \o (IF Len(secondary) > 0 THEN <<SecondaryLine(ListAdditionalRacks(secondary))>>
            ELSE <<>>)
        \o <<BlankLine>>

RECURSIVE PrintList(_, _)
PrintList(list, sr) ==
    IF list = <<>> THEN <<>> ELSE PrintPartOrder(Head(list), sr) \o PrintList(Tail(list), sr)

RECURSIVE PrintRackSections(_, _, _)
PrintRackSections(names, rs, sr) ==
    IF names = <<>> THEN <<>>
    ELSE <<RackLine(Head(names))>> \o PrintList(rs[Head(names)], sr)
         \o PrintRackSections(Tail(names), rs, sr)

\* printRacksAndOrders, the racks map being visited in the order `iter`
printRacksAndOrders(rs, sr, iter) ==
    <<HeaderLine>> \o PrintRackSections(getSortedRacksNames(iter), rs, sr)

----------------------------------------------------------------------------
(* solve() of src/cmd/main.go, one action per call that can end the run *)

OrderRowSet ==
    {[id |-> o, product_id |-> p, quantity |-> QuantityOf(o, p), name |-> ProductNameOf(p)] :
        o \in OrderIDSet, p \in ProductIDSet}

RackRowSet ==
    {[product_id |-> p, name |-> n, is_main |-> m] :
        p \in ProductIDSet, n \in RackNameSet, m \in BOOLEAN}

Init ==
    /\ pc = "start"
    /\ arg \in ArgSet
    /\ ordersTable \in SeqsUpTo(OrderRowSet, MaxOrderRows)
    /\ racksTable \in SeqsUpTo(RackRowSet, MaxRackRows)
    /\ rackTable = <<>>
    /\ productsNames = EmptyMap
    /\ racksNames = EmptyMap
    /\ productsName = EmptyMap
    /\ loop = <<>>
    /\ calls = [p \in ProductIDSet |-> 0]
    /\ orderIDs = <<>>
    /\ orders = EmptyMap
    /\ mainRacks = EmptyMap
    /\ secondaryRacks = EmptyMap
    /\ racks = EmptyMap
    /\ out = <<>>
    /\ lookupFailed = FALSE

\* logrus.Fatalf: the process exits
Fatal == pc' = "fatal"

\* parseOrderIDs and getOrders return the orders
GetOrdersOk ==
    /\ pc = "start"
    /\ LET ids == parseOrderIDs(arg)
           res == ScanOrders(getOrdersQuery(ids), EmptyMap, EmptyMap)
       IN  /\ orderIDs' = ids
           /\ orders' = res.orders
           /\ mainRacks' = res.mainRacks
    /\ secondaryRacks' = EmptyMap
    /\ pc' = "gotOrders"
    /\ UNCHANGED <<inputs, vars000, vars001, racks, out, lookupFailed>>

\* getOrders fails: the query, or the scan after k rows
GetOrdersFail ==
    /\ pc = "start"
    /\ LET ids == parseOrderIDs(arg)
           rows == getOrdersQuery(ids)
       IN  /\ orderIDs' = ids
           /\ \E k \in 0..Len(rows) :
                mainRacks' = ScanOrders(SubSeq(rows, 1, k), EmptyMap, EmptyMap).mainRacks
    /\ secondaryRacks' = EmptyMap
    /\ lookupFailed' = TRUE
    /\ Fatal
    /\ UNCHANGED <<inputs, vars000, vars001, orders, racks, out>>

InitRacksOk ==
    /\ pc = "gotOrders"
    /\ LET res == ScanRacks(getRacksQuery(DOMAIN mainRacks), mainRacks, secondaryRacks)
       IN  /\ mainRacks' = res.mainRacks
           /\ secondaryRacks' = res.secondaryRacks
    /\ pc' = "racksReady"
    /\ UNCHANGED <<inputs, vars000, vars001, orderIDs, orders, racks, out, lookupFailed>>

\* initRacks fails: the query, or the scan after k rows
InitRacksFail ==
    /\ pc = "gotOrders"
    /\ LET rows == getRacksQuery(DOMAIN mainRacks)
       IN  \E k \in 0..Len(rows) :
             LET res == ScanRacks(SubSeq(rows, 1, k), mainRacks, secondaryRacks)
             IN  /\ mainRacks' = res.mainRacks
                 /\ secondaryRacks' = res.secondaryRacks
    /\ lookupFailed' = TRUE
    /\ Fatal
    /\ UNCHANGED <<inputs, vars000, vars001, orderIDs, orders, racks, out>>

GroupOrdersByRack ==
    /\ pc = "racksReady"
    /\ \E visit \in VisitOrders(DOMAIN orders) :
         racks' = groupOrdersByRack(orders, visit, EmptyMap, mainRacks)
    /\ pc' = "grouped"
    /\ UNCHANGED <<inputs, vars000, vars001, orderIDs, orders, mainRacks,
                   secondaryRacks, out, lookupFailed>>

PrintRacksAndOrders ==
    /\ pc = "grouped"
    /\ \E iter \in VisitOrders(DOMAIN racks) :
         out' = printRacksAndOrders(racks, secondaryRacks, iter)
    /\ pc' = "done"
    /\ UNCHANGED <<inputs, vars000, vars001, orderIDs, orders, mainRacks,
                   secondaryRacks, racks, lookupFailed>>

Next ==
    \/ GetOrdersOk
    \/ GetOrdersFail
    \/ InitRacksOk
    \/ InitRacksFail
    \/ GroupOrdersByRack
    \/ PrintRacksAndOrders

Spec == Init /\ [][Next]_vars

----------------------------------------------------------------------------
(* What the inputs of a run determine, for stating the properties *)

Requested == Range(parseOrderIDs(arg))

\* the line items of the requested orders, in the order the repository returns them
FetchedItems ==
    LET requested == Requested
        rows == SelectSeq(ordersTable, LAMBDA r : r.id \in requested)
    IN  [i \in DOMAIN rows |->
            [OrderID |-> rows[i].id,
             Product |-> [ID |-> rows[i].product_id, Name |-> rows[i].name],
             Quantity |-> rows[i].quantity]]

MainRowsOf(p) == SelectSeq(racksTable, LAMBDA r : r.product_id = p /\ r.is_main)

HasMainRack(p) == MainRowsOf(p) # <<>>

\* the main rack initRacks loads: the last row marked main
MainRackNameOf(p) == MainRowsOf(p)[Len(MainRowsOf(p))].name

SecondaryNamesOf(p) ==
    LET rows == SelectSeq(racksTable, LAMBDA r : r.product_id = p /\ ~r.is_main)
    IN  [i \in DOMAIN rows |-> rows[i].name]

Count(s, e) == Cardinality({i \in DOMAIN s : s[i] = e})

BagOfSeq(s) == [e \in Range(s) |-> Count(s, e)]

RECURSIVE TotalCount(_, _, _)
TotalCount(rs, keys, e) ==
    IF keys = {} THEN 0
    ELSE LET k == CHOOSE x \in keys : TRUE
         IN  Count(rs[k], e) + TotalCount(rs, keys \ {k}, e)

\* the printed report, read back: the rack section a line belongs to, and the
\* entries (product line and order line) of a rack section, in printed order
SectionOf(i) ==
    LET heads == {j \in 1..i : out[j].kind = "rack"}
        last == CHOOSE j \in heads : \A h \in heads : h <= j
    IN  out[last].str

PrintedEntry(i) ==
    [OrderID |-> out[i + 1].id,
     Product |-> [ID |-> out[i].id, Name |-> out[i].name],
     Quantity |-> out[i + 1].qty]

ProductLineIndexes == SelectSeq([i \in 1..Len(out) |-> i], LAMBDA i : out[i].kind = "product")

PrintedEntries ==
    LET idx == ProductLineIndexes
    IN  [n \in DOMAIN idx |-> PrintedEntry(idx[n])]

PrintedSection(rackName) ==
    LET idx == SelectSeq(ProductLineIndexes, LAMBDA i : SectionOf(i) = rackName)
    IN  [n \in DOMAIN idx |-> PrintedEntry(idx[n])]

PrintedRackNames ==
    LET lines == SelectSeq(out, LAMBDA l : l.kind = "rack")
    IN  [i \in DOMAIN lines |-> lines[i].str]

Grouped == pc \in {"grouped", "done"}

----------------------------------------------------------------------------
(* Properties of src/cmd/main.go (specification Spec) *)

\* C1: after groupOrdersByRack every fetched line item is in exactly one rack
\* bucket, no bucket holds anything else, and an item whose product has a main
\* rack is in the bucket keyed by the name initRacks loaded for that product.
C1_GroupingCorrect ==
    pc = "grouped" =>
        LET items == FetchedItems
            keys == DOMAIN racks
        IN  /\ \A k \in keys : Range(racks[k]) \subseteq Range(items)
            /\ \A e \in Range(items) :
                 LET holding == {k \in keys : Count(racks[k], e) > 0}
                 IN  /\ TotalCount(racks, keys, e) = Count(items, e)
                     /\ Cardinality(holding) = 1
                     /\ HasMainRack(e.Product.ID) =>
                          holding = {MainRackNameOf(e.Product.ID)}

C1_Witness ==
    /\ pc = "grouped"
    /\ Cardinality(DOMAIN racks) = 2
    /\ \A e \in Range(FetchedItems) : HasMainRack(e.Product.ID)
    /\ Len(FetchedItems) >= 2

\* C3: if a product of a requested order has no rack row marked main, the run
\* ends with an error and prints no line of the report.
C3_NoMainRackAborts ==
    (/\ pc \notin {"start", "fatal"}
     /\ \E e \in Range(FetchedItems) : ~HasMainRack(e.Product.ID))
        => /\ out = <<>>
           /\ pc # "done"

\* C4: a printed entry's secondary-rack line lists exactly the names of the
\* product's secondary racks, each once, in the order the repository returned
\* them; an entry of a product without secondary racks has no such line.
C4_SecondaryRacksListed ==
    pc = "done" =>
        \A i \in Range(ProductLineIndexes) :
            LET names == SecondaryNamesOf(out[i].id)
            IN  /\ out[i + 1].kind = "order"
                /\ IF names = <<>>
                   THEN out[i + 2] = BlankLine
                   ELSE /\ out[i + 2].kind = "secondary"
                        /\ Split(out[i + 2].str, Comma) = names
                        /\ out[i + 3] = BlankLine

C4_Witness ==
    /\ pc = "done"
    /\ \E i \in DOMAIN out :
         /\ out[i].kind = "secondary"
         /\ Split(out[i].str, Comma) = <<StrB, StrAB>>
    /\ \E i \in DOMAIN out : out[i].kind = "order" /\ out[i + 1] = BlankLine

\* C5: the printed lines are the same for every order in which groupOrdersByRack
\* may visit the orders map.
C5_OutputReproducible ==
    pc = "done" =>
        \A visit \in VisitOrders(DOMAIN orders) :
            \A iter \in VisitOrders(DOMAIN racks) :
                out = printRacksAndOrders(
                          groupOrdersByRack(orders, visit, EmptyMap, mainRacks),
                          secondaryRacks, iter)

\* C7: a requested order ID without rows is no error: the run fails only when a
\* lookup fails, and a completed run prints exactly the line items of the other
\* requested orders, none of them under the missing ID.
MissingOrderIDs == {o \in Requested : \A i \in DOMAIN ordersTable : ordersTable[i].id # o}

C7_MissingOrderIsNoError ==
    /\ pc = "fatal" => lookupFailed
    /\ pc = "done" =>
         LET printed == PrintedEntries
             missing == MissingOrderIDs
         IN  /\ BagOfSeq(printed) = BagOfSeq(FetchedItems)
             /\ \A i \in DOMAIN printed : printed[i].OrderID \notin missing

C7_Witness ==
    /\ pc = "done"
    /\ MissingOrderIDs # {}
    /\ Len(PrintedEntries) >= 2
    /\ ~lookupFailed

\* C9: line items of one order whose products share a main rack keep, in that
\* rack's bucket and in its printed section, the order in which the repository
\* returned them.
MainRackKeyOf == [p \in ProductIDSet |-> IF HasMainRack(p) THEN <<MainRackNameOf(p)>> ELSE <<>>]

OfOrder(s, o) == SelectSeq(s, LAMBDA e : e.OrderID = o)

C9_FetchOrderKept ==
    Grouped =>
        LET items == FetchedItems
            key == MainRackKeyOf
        IN  \A o \in Requested : \A rackName \in RackNameSet :
               LET fetched == SelectSeq(items, LAMBDA e : /\ e.OrderID = o
                                                          /\ key[e.Product.ID] = <<rackName>>)
               IN  IF pc = "grouped"
                   THEN OfOrder(MapGet(racks, rackName, <<>>), o) = fetched
                   ELSE OfOrder(PrintedSection(rackName), o) = fetched

C9_Witness ==
    /\ pc = "done"
    /\ \E o \in Requested : \E rackName \in RackNameSet :
         LET s == OfOrder(PrintedSection(rackName), o)
         IN  Len(s) = 2 /\ s[1] # s[2]

\* C10: whatever the order in which the orders map is visited, groupOrdersByRack
\* yields the same rack keys and, per rack, the same multiset of entries.
C10_GroupingIgnoresVisitOrder ==
    pc = "grouped" =>
        \A visit \in VisitOrders(DOMAIN orders) :
            LET g == groupOrdersByRack(orders, visit, EmptyMap, mainRacks)
            IN  /\ DOMAIN g = DOMAIN racks
                /\ \A k \in DOMAIN g : BagOfSeq(g[k]) = BagOfSeq(racks[k])

C10_Witness ==
    /\ pc = "grouped"
    /\ Cardinality(DOMAIN orders) = 2
    /\ \E k \in DOMAIN racks :
         /\ Len(racks[k]) = 2
         /\ racks[k][1].OrderID # racks[k][2].OrderID
         /\ \E visit \in VisitOrders(DOMAIN orders) :
              groupOrdersByRack(orders, visit, EmptyMap, mainRacks)[k] # racks[k]

----------------------------------------------------------------------------
(* src/unnamed/part_001: the program over the sqlc store *)

\* store.GetOrder: the rows of one order (a :many query, no error when empty)
GetOrder(orderID) == SelectSeq(ordersTable, LAMBDA r : r.id = orderID)

\* store.GetProduct
GetProduct(id) == [ID |-> id, Name |-> ProductNameOf(id)]

\* store.GetMainRack: WHERE product_id = $1 AND is_main = true LIMIT 1; no row
\* is sql.ErrNoRows
GetMainRack(productID) ==
    LET rows == SelectSeq(racksTable, LAMBDA r : r.product_id = productID /\ r.is_main)
    IN  IF rows = <<>> THEN <<>> ELSE <<rows[1]>>

\* store.GetSecondaryRacks: WHERE product_id = $1 AND is_main = false
GetSecondaryRacks(productID) ==
    SelectSeq(racksTable, LAMBDA r : r.product_id = productID /\ ~r.is_main)

\* mutant: getProductName asks the store on every call
NeedsLookupAlways(cache, id) == TRUE

\* getProductName: the test `if name, ok := productsName[id]; ok`
NeedsLookup(cache, id) == id \notin DOMAIN cache

\* getProductName when store.GetProduct returns no error
getProductName(cache, id) ==
    IF ~NeedsLookup(cache, id)
    THEN [name |-> cache[id], productsName |-> cache, called |-> FALSE]
    ELSE LET productSQLC == GetProduct(id)
             stored == MapPut(cache, id, productSQLC.Name)
         IN  [name |-> stored[id], productsName |-> stored, called |-> TRUE]

\* a *Product held in the orders map: the order and the position in its list
ProductPtr(orderID, idx) == [order |-> orderID, idx |-> idx]

Deref(os, ptr) == os[ptr.order][ptr.idx]

\* the products groupOrdersByRack walks through, the orders map being visited
\* in the order `visit`
RECURSIVE ProductPtrs(_, _)
ProductPtrs(os, visit) ==
    IF visit = <<>> THEN <<>>
    ELSE [j \in 1..Len(os[Head(visit)]) |-> ProductPtr(Head(visit), j)]
         \o ProductPtrs(os, Tail(visit))

\* the body of the inner loop of groupOrdersByRack, both lookups succeeding
GroupProduct001(st, ptr) ==
    LET product == Deref(st.orders, ptr)
        rack == GetMainRack(product.ID)[1]
        secondary == GetSecondaryRacks(product.ID)
        names == [i \in DOMAIN secondary |-> secondary[i].name]
    IN  [racks |-> MapPut(st.racks, rack.name,
                          Append(MapGet(st.racks, rack.name, <<>>),
                                 [ID |-> ptr.order, Product |-> ptr])),
         orders |-> [st.orders EXCEPT ![ptr.order][ptr.idx].SecondaryRacks = @ \o names]]

RECURSIVE groupOrdersByRack001(_, _)
groupOrdersByRack001(st, ptrs) ==
    IF ptrs = <<>> THEN st
    ELSE groupOrdersByRack001(GroupProduct001(st, Head(ptrs)), Tail(ptrs))

PrintPartOrder001(os, partOrder) ==
    LET product == Deref(os, partOrder.Product)
    IN  <<ProductLine(product.Name, product.ID),
          OrderLine(partOrder.ID, product.Quantity)>>
        \o (IF Len(product.SecondaryRacks) > 0
            THEN <<SecondaryLine(ListAdditionalRacks(product.SecondaryRacks))>>
            ELSE <<>>)
        \o <<BlankLine>>

RECURSIVE PrintList001(_, _)
PrintList001(os, list) ==
    IF list = <<>> THEN <<>>
    ELSE PrintPartOrder001(os, Head(list)) \o PrintList001(os, Tail(list))

RECURSIVE PrintRackSections001(_, _, _)
PrintRackSections001(names, rs, os) ==
    IF names = <<>> THEN <<>>
    ELSE <<RackLine(Head(names))>> \o PrintList001(os, rs[Head(names)])
         \o PrintRackSections001(Tail(names), rs, os)

\* printRacksAndOrders: `for rackName, listPartOrder := range racks`, the map
\* being visited in the order `iter`
printRacksAndOrders001(rs, os, iter) ==
    <<HeaderLine>> \o PrintRackSections001(iter, rs, os)

Init001 ==
    /\ pc = "start"
    /\ arg \in ArgSet
    /\ ordersTable \in SeqsUpTo(OrderRowSet, MaxOrderRows)
    /\ racksTable \in SeqsUpTo(RackRowSet, MaxRackRows)
    /\ rackTable = <<>>
    /\ productsNames = EmptyMap
    /\ racksNames = EmptyMap
    /\ productsName = EmptyMap
    /\ loop = <<>>
    /\ calls = [p \in ProductIDSet |-> 0]
    /\ orderIDs = <<>>
    /\ orders = EmptyMap
    /\ mainRacks = EmptyMap
    /\ secondaryRacks = EmptyMap
    /\ racks = EmptyMap
    /\ out = <<>>
    /\ lookupFailed = FALSE

unused001 == <<vars000, mainRacks, secondaryRacks>>

\* solve: parseOrderIDs, and getOrders up to its loop
ParseOrderIDs001 ==
    /\ pc = "start"
    /\ orderIDs' = parseOrderIDs(arg)
    /\ loop' = [i |-> 1, fetched |-> FALSE, rows |-> <<>>, products |-> <<>>]
    /\ pc' = "getOrders"
    /\ UNCHANGED <<inputs, unused001, orders, racks, out, productsName, calls, lookupFailed>>

\* getOrders: store.GetOrder for the next order ID
GetOrderOk001 ==
    /\ pc = "getOrders"
    /\ ~loop.fetched
    /\ loop.i <= Len(orderIDs)
    /\ loop' = [loop EXCEPT !.fetched = TRUE, !.rows = GetOrder(orderIDs[loop.i]),
                            !.products = <<>>]
    /\ UNCHANGED <<pc, inputs, unused001, orderIDs, orders, racks, out, productsName,
                   calls, lookupFailed>>

GetOrderFail001 ==
    /\ pc = "getOrders"
    /\ ~loop.fetched
    /\ loop.i <= Len(orderIDs)
    /\ lookupFailed' = TRUE
    /\ Fatal
    /\ UNCHANGED <<inputs, unused001, orderIDs, orders, racks, out, productsName, calls,
                   loop>>

\* getOrders: getProductName for the next row of the order, and the append
GetProductNameOk001 ==
    /\ pc = "getOrders"
    /\ loop.fetched
    /\ loop.rows # <<>>
    /\ LET sqlcOrder == Head(loop.rows)
           res == getProductName(productsName, sqlcOrder.product_id)
       IN  /\ productsName' = res.productsName
           /\ calls' = IF res.called
                       THEN [calls EXCEPT ![sqlcOrder.product_id] = @ + 1]
                       ELSE calls
           /\ loop' = [loop EXCEPT
                         !.rows = Tail(loop.rows),
                         !.products = Append(@, [ID |-> sqlcOrder.product_id,
                                                 Name |-> res.name,
                                                 Quantity |-> sqlcOrder.quantity,
                                                 SecondaryRacks |-> <<>>])]
    /\ UNCHANGED <<pc, inputs, unused001, orderIDs, orders, racks, out, lookupFailed>>

\* getProductName: store.GetProduct returns an error
GetProductNameFail001 ==
    /\ pc = "getOrders"
    /\ loop.fetched
    /\ loop.rows # <<>>
    /\ NeedsLookup(productsName, Head(loop.rows).product_id)
    /\ calls' = [calls EXCEPT ![Head(loop.rows).product_id] = @ + 1]
    /\ lookupFailed' = TRUE
    /\ Fatal
    /\ UNCHANGED <<inputs, unused001, orderIDs, orders, racks, out, productsName, loop>>

\* getOrders: orders[orderID] = products
StoreOrder001 ==
    /\ pc = "getOrders"
    /\ loop.fetched
    /\ loop.rows = <<>>
    /\ orders' = MapPut(orders, orderIDs[loop.i], loop.products)
    /\ loop' = [i |-> loop.i + 1, fetched |-> FALSE, rows |-> <<>>, products |-> <<>>]
    /\ UNCHANGED <<pc, inputs, unused001, orderIDs, racks, out, productsName, calls,
                   lookupFailed>>

HasMainRackRow(os, ptr) == GetMainRack(Deref(os, ptr).ID) # <<>>

\* getOrders returns; groupOrdersByRack with every lookup succeeding
GroupOrdersByRackOk001 ==
    /\ pc = "getOrders"
    /\ ~loop.fetched
    /\ loop.i > Len(orderIDs)
    /\ \E visit \in VisitOrders(DOMAIN orders) :
         LET ptrs == ProductPtrs(orders, visit)
             st == groupOrdersByRack001([racks |-> EmptyMap, orders |-> orders], ptrs)
         IN  /\ \A n \in DOMAIN ptrs : HasMainRackRow(orders, ptrs[n])
             /\ racks' = st.racks
             /\ orders' = st.orders
    /\ pc' = "grouped"
    /\ UNCHANGED <<inputs, unused001, orderIDs, out, productsName, loop, calls,
                   lookupFailed>>

\* groupOrdersByRack: a lookup fails after k products (the store's error, or
\* sql.ErrNoRows of GetMainRack)
GroupOrdersByRackFail001 ==
    /\ pc = "getOrders"
    /\ ~loop.fetched
    /\ loop.i > Len(orderIDs)
    /\ \E visit \in VisitOrders(DOMAIN orders) :
         LET ptrs == ProductPtrs(orders, visit)
         IN  \E k \in 0..(Len(ptrs) - 1) :
               /\ \A n \in 1..k : HasMainRackRow(orders, ptrs[n])
               /\ orders' = groupOrdersByRack001([racks |-> EmptyMap, orders |-> orders],
                                                 SubSeq(ptrs, 1, k)).orders
    /\ lookupFailed' = TRUE
    /\ Fatal
    /\ UNCHANGED <<inputs, unused001, orderIDs, racks, out, productsName, loop, calls>>

PrintRacksAndOrders001 ==
    /\ pc = "grouped"
    /\ \E iter \in VisitOrders(DOMAIN racks) :
         out' = printRacksAndOrders001(racks, orders, iter)
    /\ pc' = "done"
    /\ UNCHANGED <<inputs, unused001, orderIDs, orders, racks, productsName, loop, calls,
                   lookupFailed>>

Next001 ==
    \/ ParseOrderIDs001
    \/ GetOrderOk001
    \/ GetOrderFail001
    \/ GetProductNameOk001
    \/ GetProductNameFail001
    \/ StoreOrder001
    \/ GroupOrdersByRackOk001
    \/ GroupOrdersByRackFail001
    \/ PrintRacksAndOrders001

SpecP001 == Init001 /\ [][Next001]_vars

----------------------------------------------------------------------------
(* Properties of src/unnamed/part_001 (specification SpecP001) *)

\* C2: the rack header lines of the report are in strictly ascending
\* lexicographic order of rack name (so each name heads one section only).
C2_RackHeadersAscending ==
    pc = "done" =>
        \A i, j \in DOMAIN PrintedRackNames :
            i < j => StrLess(PrintedRackNames[i], PrintedRackNames[j])

\* the products getOrders has built so far
ProductsBuilt ==
    UNION ({Range(orders[o]) : o \in DOMAIN orders}
           \cup {IF loop = <<>> THEN {} ELSE Range(loop.products)})

\* C8: in one run store.GetProduct is called at most once per product ID; the
\* first call for an ID stores the name in the cache, every product built for
\* that ID carries the cached name, no later step changes a cached name, and a
\* failed lookup leaves the cache as it was.
C8_CacheState ==
    /\ \A p \in ProductIDSet : calls[p] <= 1
    /\ \A p \in DOMAIN productsName :
         calls[p] = 1 /\ productsName[p] = GetProduct(p).Name
    /\ \A product \in ProductsBuilt :
         /\ product.ID \in DOMAIN productsName
         /\ product.Name = productsName[product.ID]

C8_CacheStep ==
    /\ \A p \in DOMAIN productsName :
         p \in DOMAIN productsName' /\ productsName'[p] = productsName[p]
    /\ calls' # calls =>
         \E p \in ProductIDSet :
            /\ p \notin DOMAIN productsName
            /\ calls' = [calls EXCEPT ![p] = @ + 1]
            /\ IF lookupFailed'
               THEN productsName' = productsName
               ELSE productsName' = MapPut(productsName, p, GetProduct(p).Name)
    /\ calls' = calls => productsName' = productsName

C8_ProductNameLookedUpOnce == [](C8_CacheState) /\ [][C8_CacheStep]_vars

\* a product that occurs in two orders: the second getProductName is served
\* from the cache
C8_Witness ==
    /\ pc = "done"
    /\ \E p \in ProductIDSet :
         /\ calls[p] = 1
         /\ Cardinality({i \in DOMAIN PrintedEntries : PrintedEntries[i].Product.ID = p}) = 2

----------------------------------------------------------------------------
(* src/unnamed/part_000: racks referred to by ID, names in table rack *)

RackIDSet == {1, 2}

\* product_rack rows; UNIQUE (product_id, rack_id)
ProductRackRowSet ==
    {[product_id |-> p, rack_id |-> r, is_main |-> m] :
        p \in ProductIDSet, r \in RackIDSet, m \in BOOLEAN}

RackRow(id, name) == [rack_id |-> id, rack_name |-> name]

\* the snapshots of table rack tried: distinct names, either way round; one
\* name shared by both racks; a rack without a row
RackTableSet ==
    {<<RackRow(1, StrAB), RackRow(2, StrB)>>,
     <<RackRow(1, StrB), RackRow(2, StrAB)>>,
     <<RackRow(1, StrB), RackRow(2, StrB)>>,
     <<RackRow(1, StrAB)>>}

\* SELECT o.order_id, o.product_id, o.quantity ... WHERE o.order_id = ANY($1)
getOrdersQuery000(ids) == SelectSeq(ordersTable, LAMBDA r : r.id \in Range(ids))

PartOrderOf000(r) ==
    [OrderID |-> r.id, ProductID |-> r.product_id, Quantity |-> r.quantity]

\* the rows.Next() loop of getOrders
RECURSIVE ScanOrders000(_, _, _)
ScanOrders000(rows, os, pn) ==
    IF rows = <<>> THEN [orders |-> os, productsNames |-> pn]
    ELSE LET partOrder == PartOrderOf000(Head(rows))
         IN  ScanOrders000(Tail(rows),
                           MapPut(os, partOrder.OrderID,
                                  Append(MapGet(os, partOrder.OrderID, <<>>), partOrder)),
                           MapPut(pn, partOrder.ProductID, ""))

\* SELECT product_id, product_name FROM product WHERE product_id = ANY($1)
getProductsQuery000(productIDs) ==
    LET present == SelectSeq(<<10, 20>>, LAMBDA p : p \in productIDs)
    IN  [i \in DOMAIN present |->
            [product_id |-> present[i], product_name |-> ProductNameOf(present[i])]]

\* the rows.Next() loop of initProductsNames
RECURSIVE ScanProducts000(_, _)
ScanProducts000(rows, pn) ==
    IF rows = <<>> THEN pn
    ELSE ScanProducts000(Tail(rows), MapPut(pn, Head(rows).product_id, Head(rows).product_name))

\* SELECT product_id, rack_id, is_main FROM product_rack WHERE product_id = ANY($1)
getProductRacksQuery000(productIDs) ==
    SelectSeq(racksTable, LAMBDA r : r.product_id \in productIDs)

\* the rows.Next() loop of initRacks
RECURSIVE ScanProductRacks000(_, _, _, _)
ScanProductRacks000(rows, mr, sr, rackIDs) ==
    IF rows = <<>> THEN [mainRacks |-> mr, secondaryRacks |-> sr, rackIDs |-> rackIDs]
    ELSE LET r == Head(rows)
         IN  IF r.is_main
             THEN ScanProductRacks000(Tail(rows), MapPut(mr, r.product_id, r.rack_id), sr,
                                      Append(rackIDs, r.rack_id))
             ELSE ScanProductRacks000(Tail(rows), mr,
                                      MapPut(sr, r.product_id,
                                             Append(MapGet(sr, r.product_id, <<>>), r.rack_id)),
                                      Append(rackIDs, r.rack_id))

\* SELECT rack_id, rack_name FROM rack WHERE rack_id = ANY($1)
getRacksQuery000(rackIDs) == SelectSeq(rackTable, LAMBDA r : r.rack_id \in Range(rackIDs))

\* the rows.Next() loop of initRacksNames
RECURSIVE ScanRackNames000(_, _)
ScanRackNames000(rows, rn) ==
    IF rows = <<>> THEN rn
    ELSE ScanRackNames000(Tail(rows), MapPut(rn, Head(rows).rack_id, Head(rows).rack_name))

\* mutant: the bucket keyed by the rack ID, written in decimal
AppendToRack000ByID(rs, mr, rn, partOrder) ==
    LET rackID == MapGet(mr, partOrder.ProductID, 0)
        rackName == <<48 + rackID>>
    IN  MapPut(rs, rackName, Append(MapGet(rs, rackName, <<>>), partOrder))

\* the body of the inner loop of groupOrdersByRack
AppendToRack000(rs, mr, rn, partOrder) ==
    LET rackID == MapGet(mr, partOrder.ProductID, 0)
        rackName == MapGet(rn, rackID, EmptyStr)
    IN  MapPut(rs, rackName, Append(MapGet(rs, rackName, <<>>), partOrder))

RECURSIVE GroupList000(_, _, _, _)
GroupList000(list, rs, mr, rn) ==
    IF list = <<>> THEN rs
    ELSE GroupList000(Tail(list), AppendToRack000(rs, mr, rn, Head(list)), mr, rn)

\* groupOrdersByRack, the orders map being visited in the order `visit`
RECURSIVE groupOrdersByRack000(_, _, _, _, _)
groupOrdersByRack000(os, visit, rs, mr, rn) ==
    IF visit = <<>> THEN rs
    ELSE groupOrdersByRack000(os, Tail(visit), GroupList000(os[Head(visit)], rs, mr, rn),
                              mr, rn)

PrintPartOrder000(partOrder, pn, sr, rn) ==
    LET productID == partOrder.ProductID
        secondary == MapGet(sr, productID, <<>>)
    IN  <<ProductLine(MapGet(pn, productID, ""), productID),
          OrderLine(partOrder.OrderID, partOrder.Quantity)>>
        \o (IF Len(secondary) > 0
            THEN <<SecondaryLine(ListAdditionalRacks(
                       [i \in DOMAIN secondary |-> MapGet(rn, secondary[i], EmptyStr)]))>>
            ELSE <<>>)
        \o <<BlankLine>>

RECURSIVE PrintList000(_, _, _, _)
PrintList000(list, pn, sr, rn) ==
    IF list = <<>> THEN <<>>
    ELSE PrintPartOrder000(Head(list), pn, sr, rn) \o PrintList000(Tail(list), pn, sr, rn)

RECURSIVE PrintRackSections000(_, _, _, _, _)
PrintRackSections000(names, rs, pn, sr, rn) ==
    IF names = <<>> THEN <<>>
    ELSE <<RackLine(Head(names))>> \o PrintList000(rs[Head(names)], pn, sr, rn)
         \o PrintRackSections000(Tail(names), rs, pn, sr, rn)

\* printRacksAndOrders, the racks map being visited in the order `iter`
printRacksAndOrders000(rs, pn, sr, rn, iter) ==
    <<HeaderLine>> \o PrintRackSections000(getSortedRacksNames(iter), rs, pn, sr, rn)

\* order_product: at most n rows, UNIQUE (order_id, product_id)
OrderProductTables(n) ==
    {s \in SeqsUpTo(OrderRowSet, n) :
        \A i, j \in DOMAIN s :
            i # j => <<s[i].id, s[i].product_id>> # <<s[j].id, s[j].product_id>>}

\* product_rack: at most n rows, UNIQUE (product_id, rack_id)
ProductRackTables(n) ==
    {s \in SeqsUpTo(ProductRackRowSet, n) :
        \A i, j \in DOMAIN s :
            i # j => <<s[i].product_id, s[i].rack_id>> # <<s[j].product_id, s[j].rack_id>>}

Init000 ==
    /\ pc = "start"
    /\ arg \in ArgSet
    /\ ordersTable \in OrderProductTables(MaxOrderRows)
    /\ racksTable \in ProductRackTables(MaxRackRows)
    /\ rackTable \in RackTableSet
    /\ productsNames = EmptyMap
    /\ racksNames = EmptyMap
    /\ productsName = EmptyMap
    /\ loop = <<>>
    /\ calls = [p \in ProductIDSet |-> 0]
    /\ orderIDs = <<>>
    /\ orders = EmptyMap
    /\ mainRacks = EmptyMap
    /\ secondaryRacks = EmptyMap
    /\ racks = EmptyMap
    /\ out = <<>>
    /\ lookupFailed = FALSE

GetOrdersOk000 ==
    /\ pc = "start"
    /\ LET ids == parseOrderIDs(arg)
           res == ScanOrders000(getOrdersQuery000(ids), EmptyMap, EmptyMap)
       IN  /\ orderIDs' = ids
           /\ orders' = res.orders
           /\ productsNames' = res.productsNames
    /\ pc' = "gotOrders"
    /\ UNCHANGED <<inputs, vars001, racksNames, mainRacks, secondaryRacks, racks, out,
                   lookupFailed>>

GetOrdersFail000 ==
    /\ pc = "start"
    /\ LET ids == parseOrderIDs(arg)
           rows == getOrdersQuery000(ids)
       IN  /\ orderIDs' = ids
           /\ \E k \in 0..Len(rows) :
                productsNames' =
                    ScanOrders000(SubSeq(rows, 1, k), EmptyMap, EmptyMap).productsNames
    /\ lookupFailed' = TRUE
    /\ Fatal
    /\ UNCHANGED <<inputs, vars001, racksNames, orders, mainRacks, secondaryRacks, racks,
                   out>>

InitProductsNamesOk000 ==
    /\ pc = "gotOrders"
    /\ productsNames' =
           ScanProducts000(getProductsQuery000(DOMAIN productsNames), productsNames)
    /\ pc' = "namesReady"
    /\ UNCHANGED <<inputs, vars001, racksNames, orderIDs, orders, mainRacks,
                   secondaryRacks, racks, out, lookupFailed>>

InitProductsNamesFail000 ==
    /\ pc = "gotOrders"
    /\ LET rows == getProductsQuery000(DOMAIN productsNames)
       IN  \E k \in 0..Len(rows) :
             productsNames' = ScanProducts000(SubSeq(rows, 1, k), productsNames)
    /\ lookupFailed' = TRUE
    /\ Fatal
    /\ UNCHANGED <<inputs, vars001, racksNames, orderIDs, orders, mainRacks,
                   secondaryRacks, racks, out>>

\* initRacks returns nil; the error of initRacksNames, if any, is dropped
InitRacksOk000 ==
    /\ pc = "namesReady"
    /\ LET res == ScanProductRacks000(getProductRacksQuery000(DOMAIN productsNames),
                                      mainRacks, secondaryRacks, <<>>)
           nameRows == getRacksQuery000(res.rackIDs)
       IN  /\ mainRacks' = res.mainRacks
           /\ secondaryRacks' = res.secondaryRacks
           /\ \/ /\ racksNames' = ScanRackNames000(nameRows, EmptyMap)
                 /\ UNCHANGED lookupFailed
              \/ /\ UNCHANGED racksNames       \* the query of initRacksNames fails
                 /\ lookupFailed' = TRUE
              \/ /\ \E k \in 0..Len(nameRows) : \* its scan fails after k rows
                      racksNames' = ScanRackNames000(SubSeq(nameRows, 1, k), EmptyMap)
                 /\ lookupFailed' = TRUE
    /\ pc' = "racksReady"
    /\ UNCHANGED <<inputs, vars001, productsNames, orderIDs, orders, racks, out>>

\* initRacks fails: the product_rack query, or its scan after k rows
InitRacksFail000 ==
    /\ pc = "namesReady"
    /\ LET rows == getProductRacksQuery000(DOMAIN productsNames)
       IN  \E k \in 0..Len(rows) :
             LET res == ScanProductRacks000(SubSeq(rows, 1, k), mainRacks,
                                            secondaryRacks, <<>>)
             IN  /\ mainRacks' = res.mainRacks
                 /\ secondaryRacks' = res.secondaryRacks
    /\ lookupFailed' = TRUE
    /\ Fatal
    /\ UNCHANGED <<inputs, vars001, productsNames, racksNames, orderIDs, orders, racks,
                   out>>

GroupOrdersByRack000 ==
    /\ pc = "racksReady"
    /\ \E visit \in VisitOrders(DOMAIN orders) :
         racks' = groupOrdersByRack000(orders, visit, EmptyMap, mainRacks, racksNames)
    /\ pc' = "grouped"
    /\ UNCHANGED <<inputs, vars000, vars001, orderIDs, orders, mainRacks, secondaryRacks,
                   out, lookupFailed>>

PrintRacksAndOrders000 ==
    /\ pc = "grouped"
    /\ \E iter \in VisitOrders(DOMAIN racks) :
         out' = printRacksAndOrders000(racks, productsNames, secondaryRacks, racksNames,
                                       iter)
    /\ pc' = "done"
    /\ UNCHANGED <<inputs, vars000, vars001, orderIDs, orders, mainRacks, secondaryRacks,
                   racks, lookupFailed>>

Next000 ==
    \/ GetOrdersOk000
    \/ GetOrdersFail000
    \/ InitProductsNamesOk000
    \/ InitProductsNamesFail000
    \/ InitRacksOk000
    \/ InitRacksFail000
    \/ GroupOrdersByRack000
    \/ PrintRacksAndOrders000

SpecP000 == Init000 /\ [][Next000]_vars

----------------------------------------------------------------------------
(* Properties of src/unnamed/part_000 (specification SpecP000) *)

\* C6: a run in which a repository lookup has failed prints no line of the
\* report and does not complete; a run that ends in the fatal state has printed
\* nothing.
C6_LookupFailureIsFatal ==
    /\ lookupFailed => (out = <<>> /\ pc # "done")
    /\ pc = "fatal" => (lookupFailed /\ out = <<>>)

\* the line items part_000 fetched, over all orders
FetchedItems000 ==
    LET rows == getOrdersQuery000(parseOrderIDs(arg))
    IN  [i \in DOMAIN rows |-> PartOrderOf000(rows[i])]

\* the rack ID initRacks loads as the main rack of product p: that of the last
\* row marked main
MainRackIDOf000(p) ==
    LET rows == SelectSeq(racksTable, LAMBDA r : r.product_id = p /\ r.is_main)
    IN  rows[Len(rows)].rack_id

HasMainRack000(p) == \E i \in DOMAIN racksTable :
                        racksTable[i].product_id = p /\ racksTable[i].is_main

\* the entries printed under the header rackName, read back from the report
PrintedItems000(rackName) ==
    LET idx == SelectSeq(ProductLineIndexes, LAMBDA i : SectionOf(i) = rackName)
    IN  [n \in DOMAIN idx |->
            [OrderID |-> out[idx[n] + 1].id, ProductID |-> out[idx[n]].id,
             Quantity |-> out[idx[n] + 1].qty]]

\* two fetched items whose products have main racks with different IDs that
\* carry the same name
SameNameRacks000(a, b) ==
    /\ HasMainRack000(a.ProductID)
    /\ HasMainRack000(b.ProductID)
    /\ MainRackIDOf000(a.ProductID) # MainRackIDOf000(b.ProductID)
    /\ MapGet(racksNames, MainRackIDOf000(a.ProductID), EmptyStr)
         = MapGet(racksNames, MainRackIDOf000(b.ProductID), EmptyStr)

\* C11: buckets are keyed by rack name, not rack ID. When two fetched line
\* items have products whose main racks differ in rack ID but share the rack
\* name, both items are in the one bucket keyed by that name and in no other
\* bucket, and the report has exactly one header of that name with both items
\* printed under it.
C11_BucketsKeyedByRackName ==
    Grouped =>
        LET items == FetchedItems000
        IN  \A i, j \in DOMAIN items :
              SameNameRacks000(items[i], items[j]) =>
                LET name == MapGet(racksNames, MainRackIDOf000(items[i].ProductID),
                                   EmptyStr)
                IN  /\ name \in DOMAIN racks
                    /\ Count(racks[name], items[i]) = Count(items, items[i])
                    /\ Count(racks[name], items[j]) = Count(items, items[j])
                    /\ \A k \in DOMAIN racks \ {name} :
                          items[i] \notin Range(racks[k]) /\ items[j] \notin Range(racks[k])
                    /\ pc = "done" =>
                          /\ Count(PrintedRackNames, name) = 1
                          /\ Count(PrintedItems000(name), items[i]) = Count(items, items[i])
                          /\ Count(PrintedItems000(name), items[j]) = Count(items, items[j])

\* the report is printed, rack 1 and rack 2 are both named "B", and two items
\* with main racks 1 and 2 stand under the only header
C11_Witness ==
    /\ pc = "done"
    /\ ~lookupFailed
    /\ rackTable = <<RackRow(1, StrB), RackRow(2, StrB)>>
    /\ \E i, j \in DOMAIN FetchedItems000 :
         /\ SameNameRacks000(FetchedItems000[i], FetchedItems000[j])
         /\ MapGet(racksNames, MainRackIDOf000(FetchedItems000[i].ProductID), EmptyStr) = StrB
    /\ PrintedRackNames = <<StrB>>
    /\ Len(PrintedItems000(StrB)) = 2

\* the same property of groupOrdersByRack in src/unnamed/part_000, the second
\* place C10 is drawn from
GroupingIgnoresVisitOrder000 ==
    pc = "grouped" =>
        \A visit \in VisitOrders(DOMAIN orders) :
            LET g == groupOrdersByRack000(orders, visit, EmptyMap, mainRacks, racksNames)
            IN  /\ DOMAIN g = DOMAIN racks
                /\ \A k \in DOMAIN g : BagOfSeq(g[k]) = BagOfSeq(racks[k])

----------------------------------------------------------------------------
(* src/unnamed/part_002: solve() with everything inline *)

Space == 32

TitleLine(str) == Line("title", str, "", 0, 0)

\* strings.Split and strconv.ParseInt, the error of ParseInt dropped
parseOrderIDs002(orderIDsStr) ==
    LET toks == Split(orderIDsStr, Comma)
    IN  [i \in DOMAIN toks |-> ParseInt(toks[i])]

\* the first loop of solve: orders[orderID] = products, for every requested ID
RECURSIVE FetchOrders002(_, _)
FetchOrders002(ids, os) ==
    IF ids = <<>> THEN os
    ELSE LET ordersSQLC == GetOrder(Head(ids))
             products == [i \in DOMAIN ordersSQLC |->
                            [ID |-> ordersSQLC[i].product_id,
                             Name |-> "",
                             Quantity |-> ordersSQLC[i].quantity,
                             SecondaryRacks |-> <<>>]]
         IN  FetchOrders002(Tail(ids), MapPut(os, Head(ids), products))

\* the products the second loop walks through: `for _, orderID := range orderIDs`
RECURSIVE ProductPtrs002(_, _)
ProductPtrs002(os, ids) ==
    IF ids = <<>> THEN <<>>
    ELSE [j \in 1..Len(os[Head(ids)]) |-> ProductPtr(Head(ids), j)]
         \o ProductPtrs002(os, Tail(ids))

\* the body of the second loop, both lookups succeeding
GroupProduct002(st, ptr) ==
    LET product == Deref(st.orders, ptr)
        rack == GetMainRack(product.ID)[1]
        secondaryRacksSQLC == GetSecondaryRacks(product.ID)
        names == [i \in DOMAIN secondaryRacksSQLC |-> secondaryRacksSQLC[i].name]
    IN  [racks |-> MapPut(st.racks, rack.name,
                          Append(MapGet(st.racks, rack.name, <<>>),
                                 [ID |-> ptr.order, Product |-> ptr])),
         orders |-> [st.orders EXCEPT ![ptr.order][ptr.idx].SecondaryRacks = @ \o names]]

RECURSIVE GroupProducts002(_, _)
GroupProducts002(st, ptrs) ==
    IF ptrs = <<>> THEN st
    ELSE GroupProducts002(GroupProduct002(st, Head(ptrs)), Tail(ptrs))

\* what the print loops go through, the racks map being visited in the order
\* `iter`: per rack its header, then its entries
RECURSIVE PrintQueue002(_, _)
PrintQueue002(rs, iter) ==
    IF iter = <<>> THEN <<>>
    ELSE <<[rack |-> <<Head(iter)>>, partOrder |-> <<>>]>>
         \o [i \in DOMAIN rs[Head(iter)] |-> [rack |-> <<>>, partOrder |-> <<rs[Head(iter)][i]>>]]
         \o PrintQueue002(rs, Tail(iter))

\* `fmt.Print(secondaryRack + " ")` for every name
RECURSIVE JoinWithSpaces002(_)
JoinWithSpaces002(names) ==
    IF names = <<>> THEN <<>>
    ELSE Head(names) \o <<Space>> \o JoinWithSpaces002(Tail(names))

\* the lines printed for one entry, store.GetProduct having succeeded
PrintPartOrder002(os, partOrder) ==
    LET product == Deref(os, partOrder.Product)
        InfoProduct == GetProduct(product.ID)
    IN  <<ProductLine(InfoProduct.Name, InfoProduct.ID),
          OrderLine(partOrder.ID, product.Quantity)>>
        \o (IF Len(product.SecondaryRacks) > 0
            THEN <<SecondaryLine(JoinWithSpaces002(product.SecondaryRacks))>>
            ELSE <<>>)
        \o <<BlankLine>>

Init002 == Init001

\* the first loop of solve, every store.GetOrder succeeding
FetchOrdersOk002 ==
    /\ pc = "start"
    /\ orderIDs' = parseOrderIDs002(arg)
    /\ orders' = FetchOrders002(parseOrderIDs002(arg), EmptyMap)
    /\ pc' = "gotOrders"
    /\ UNCHANGED <<inputs, unused001, vars001, racks, out, lookupFailed>>

\* store.GetOrder fails for one of the requested IDs
FetchOrdersFail002 ==
    /\ pc = "start"
    /\ orderIDs' = parseOrderIDs002(arg)
    /\ \E k \in 0..(Len(parseOrderIDs002(arg)) - 1) :
         orders' = FetchOrders002(SubSeq(parseOrderIDs002(arg), 1, k), EmptyMap)
    /\ lookupFailed' = TRUE
    /\ Fatal
    /\ UNCHANGED <<inputs, unused001, vars001, racks, out>>

\* the second loop of solve, every lookup succeeding
GroupOk002 ==
    /\ pc = "gotOrders"
    /\ LET ptrs == ProductPtrs002(orders, orderIDs)
           st == GroupProducts002([racks |-> EmptyMap, orders |-> orders], ptrs)
       IN  /\ \A n \in DOMAIN ptrs : HasMainRackRow(orders, ptrs[n])
           /\ racks' = st.racks
           /\ orders' = st.orders
    /\ pc' = "grouped"
    /\ UNCHANGED <<inputs, unused001, vars001, orderIDs, out, lookupFailed>>

\* the second loop: a lookup fails after k products
GroupFail002 ==
    /\ pc = "gotOrders"
    /\ LET ptrs == ProductPtrs002(orders, orderIDs)
       IN  \E k \in 0..(Len(ptrs) - 1) :
             /\ \A n \in 1..k : HasMainRackRow(orders, ptrs[n])
             /\ orders' = GroupProducts002([racks |-> EmptyMap, orders |-> orders],
                                           SubSeq(ptrs, 1, k)).orders
    /\ lookupFailed' = TRUE
    /\ Fatal
    /\ UNCHANGED <<inputs, unused001, vars001, orderIDs, racks, out>>

\* the three lines before the rack loop
PrintTitle002 ==
    /\ pc = "grouped"
    /\ out' = <<HeaderLine, TitleLine(arg), BlankLine>>
    /\ \E iter \in VisitOrders(DOMAIN racks) : loop' = PrintQueue002(racks, iter)
    /\ pc' = "printing"
    /\ UNCHANGED <<inputs, unused001, productsName, calls, orderIDs, orders, racks,
                   lookupFailed>>

PrintRackHeader002 ==
    /\ pc = "printing"
    /\ loop # <<>>
    /\ Head(loop).rack # <<>>
    /\ out' = Append(out, RackLine(Head(loop).rack[1]))
    /\ loop' = Tail(loop)
    /\ UNCHANGED <<pc, inputs, unused001, productsName, calls, orderIDs, orders, racks,
                   lookupFailed>>

\* one entry: store.GetProduct succeeds and the entry is printed
PrintEntryOk002 ==
    /\ pc = "printing"
    /\ loop # <<>>
    /\ Head(loop).partOrder # <<>>
    /\ LET partOrder == Head(loop).partOrder[1]
       IN  /\ out' = out \o PrintPartOrder002(orders, partOrder)
           /\ calls' = [calls EXCEPT ![Deref(orders, partOrder.Product).ID] = @ + 1]
    /\ loop' = Tail(loop)
    /\ UNCHANGED <<pc, inputs, unused001, productsName, orderIDs, orders, racks,
                   lookupFailed>>

\* one entry: store.GetProduct returns an error
PrintEntryFail002 ==
    /\ pc = "printing"
    /\ loop # <<>>
    /\ Head(loop).partOrder # <<>>
    /\ calls' = [calls EXCEPT
                   ![Deref(orders, Head(loop).partOrder[1].Product).ID] = @ + 1]
    /\ lookupFailed' = TRUE
    /\ Fatal
    /\ UNCHANGED <<inputs, unused001, productsName, loop, orderIDs, orders, racks, out>>

PrintDone002 ==
    /\ pc = "printing"
    /\ loop = <<>>
    /\ pc' = "done"
    /\ UNCHANGED <<inputs, unused001, vars001, orderIDs, orders, racks, out, lookupFailed>>

Next002 ==
    \/ FetchOrdersOk002
    \/ FetchOrdersFail002
    \/ GroupOk002
    \/ GroupFail002
    \/ PrintTitle002
    \/ PrintRackHeader002
    \/ PrintEntryOk002
    \/ PrintEntryFail002
    \/ PrintDone002

SpecP002 == Init002 /\ [][Next002]_vars

----------------------------------------------------------------------------
(* A repeated order ID (src/unnamed/part_002, src/cmd/main.go, part_001) *)

RepeatedOrderID ==
    LET ids == parseOrderIDs(arg)
    IN  \E i, j \in DOMAIN ids : i # j /\ ids[i] = ids[j]

\* the product lines of the report that print the line item e
PrintedAs(e) ==
    {i \in Range(ProductLineIndexes) :
        /\ out[i].id = e.Product.ID
        /\ out[i + 1].id = e.OrderID
        /\ out[i + 1].qty = e.Quantity}

\* the rack names on the secondary-rack line of the entry printed at line i,
\* read back from the printed text whether joined by commas or by spaces
PrintedSecondaryNames(i) ==
    IF i + 2 <= Len(out) /\ out[i + 2].kind = "secondary"
    THEN LET str == out[i + 2].str
             commas == [n \in DOMAIN str |-> IF str[n] = Space THEN Comma ELSE str[n]]
         IN  SelectSeq(Split(commas, Comma), LAMBDA t : t # <<>>)
    ELSE <<>>

\* C12: repeating an order ID in the requested list duplicates nothing. When
\* the argument names an order twice and the report is printed, every line
\* item of the requested orders is printed as often as the repository holds it
\* (once for a row held once), and the secondary-rack line of each such entry
\* names each secondary rack of the product as often as the repository holds
\* it (once for a rack held once).
C12_RepeatedOrderIDDuplicatesNothing ==
    (pc = "done" /\ RepeatedOrderID) =>
        LET items == FetchedItems
        IN  \A e \in Range(items) :
              /\ Cardinality(PrintedAs(e)) = Count(items, e)
              /\ \A i \in PrintedAs(e) :
                    BagOfSeq(PrintedSecondaryNames(i))
                        = BagOfSeq(SecondaryNamesOf(e.Product.ID))

\* a report printed for "1,1" with an entry of order 1 that has a
\* secondary-rack line
RepeatedOrderIDPrinted ==
    /\ pc = "done"
    /\ RepeatedOrderID
    /\ \E i \in Range(ProductLineIndexes) :
         out[i + 1].id = 1 /\ PrintedSecondaryNames(i) # <<>>

====
